---- MODULE Spec2Model ----
(***************************************************************************)
(* Model of pyod.models.mcd.MCD: a detector wrapper around a robust        *)
(* covariance estimator (sklearn MinCovDet).  One MCD instance is          *)
(* modelled; its operations are fit, decision_function and the seven       *)
(* forwarded read-only properties.                                         *)
(*                                                                         *)
(* An object attribute is a sequence: <<>> when the attribute does not     *)
(* exist on the object, <<v>> when it holds v.  Every object created by    *)
(* a fit call carries the number of that call (gen), which stands for      *)
(* the identity of the Python object.                                      *)
(***************************************************************************)
EXTENDS Integers, Sequences, FiniteSets

VARIABLES
    self,       \* the MCD instance
    nfit,       \* fit calls made on it
    nest,       \* invocations of the estimator's fit made by them
    nsucc,      \* fit calls that completed
    fitted_on,  \* the X of the latest fit call that completed
    last        \* the latest call: its arguments and how it ended

vars == <<self, nfit, nest, nsucc, fitted_on, last>>

-----------------------------------------------------------------------------
(* Bounds of the model *)

\* number of fit calls explored on the instance
MaxFits == 3
\* number of fit calls explored when every array of distances is tried
MaxScoreFits == 1
\* largest number of rows of a data set
MaxSamples == 3
\* largest number of columns of a data set
MaxFeatures == 2
\* distances are drawn from 1..MaxDist
MaxDist == 2

-----------------------------------------------------------------------------
(* Values *)

Absent == <<>>

Present(v) == <<v>>

Has(attr) == attr # Absent

Range(s) == {s[i] : i \in DOMAIN s}

\* contamination values, as fractions num/den in (0, 0.5]
Contaminations == {[num |-> 1, den |-> 4], [num |-> 1, den |-> 2]}

\* arrays of per-sample distances an estimator can compute, ties included
DistArrays == UNION {[1..n -> 1..MaxDist] : n \in 1..MaxSamples}

\* X arguments.  wellformed: passes the generic array validation;
\* degenerate: the estimator cannot fit it; dist: the distance of every row
\* from the robust location the estimator computes when fitted on it.
MalformedX ==
    [wellformed |-> FALSE, n |-> 0, nfeat |-> 0, degenerate |-> FALSE, dist |-> <<>>]

DegenerateXs ==
    {[wellformed |-> TRUE, n |-> 1, nfeat |-> f, degenerate |-> TRUE, dist |-> <<>>] :
        f \in 1..MaxFeatures}

GoodXs ==
    {[wellformed |-> TRUE, n |-> Len(d), nfeat |-> f, degenerate |-> FALSE, dist |-> d] :
        d \in DistArrays, f \in 1..MaxFeatures}

Xs == {MalformedX} \cup DegenerateXs \cup GoodXs

\* the data sets used when whole call sequences are explored
LifecycleXs ==
    {MalformedX} \cup DegenerateXs
        \cup {X \in GoodXs : X.dist \in {<<1, 2>>, <<2, 1, 1>>}}

\* y arguments: absent (None) or an array of class labels
Ys == {Absent, Present(<<0, 1, 2>>)}

\* the seven forwarded attributes
Forwarded ==
    {"raw_location_", "raw_covariance_", "raw_support_", "location_",
     "covariance_", "precision_", "support_"}

\* what an estimator whose fit failed late has already stored
RawStored == {"raw_location_", "raw_covariance_", "raw_support_", "location_", "support_"}

-----------------------------------------------------------------------------
(* Collaborators *)

\* sklearn.utils.validation.check_array: TRUE when X passes
check_array(X) == X.wellformed

\* sklearn.utils.validation.check_is_fitted(self, attributes): all present
check_is_fitted(w, attributes) == \A a \in attributes : Has(w[a])

\* MinCovDet(...): a new, unfitted estimator holding the forwarded parameters
MinCovDet(store_precision, assume_centered, support_fraction, random_state, g) ==
    [gen |-> g, fitted |-> FALSE, stored |-> {}, nfeat |-> 0, dist_ |-> <<>>,
     store_precision |-> store_precision, assume_centered |-> assume_centered,
     support_fraction |-> support_fraction, random_state |-> random_state]

\* MinCovDet.fit(X, y): y is ignored.  On degenerate data the fit fails and
\* leaves the estimator without fitted state, or, when it fails after the raw
\* estimates were stored (late), with the raw attributes only.
MinCovDet_fit(est, X, y, late) ==
    IF X.degenerate
    THEN [ok |-> FALSE,
          est |-> [est EXCEPT !.stored = IF late THEN RawStored ELSE {}]]
    ELSE [ok |-> TRUE,
          est |-> [est EXCEPT !.fitted = TRUE, !.stored = Forwarded,
                              !.nfeat = X.nfeat, !.dist_ = X.dist]]

\* MinCovDet.mahalanobis(X): one distance per row against the fitted location
\* and covariance; an estimator without fitted state has no such attributes,
\* and rows of another width do not match the fitted location.
mahalanobis(est, X) ==
    IF ~est.fitted THEN [outcome |-> "AttributeError", value |-> Absent]
    ELSE IF X.nfeat # est.nfeat THEN [outcome |-> "InvalidInput", value |-> Absent]
    ELSE [outcome |-> "ok", value |-> Present([rows |-> X.n, gen |-> est.gen])]

\* Python round(): half to even, of n * num / den
Round(n, c) ==
    LET p == n * c.num
        q == p \div c.den
        r == p % c.den
    IN  IF 2 * r < c.den THEN q
        ELSE IF 2 * r > c.den THEN q + 1
        ELSE IF q % 2 = 0 THEN q ELSE q + 1

\* the j-th smallest element of s, 1 <= j <= Len(s)
KthSmallest(s, j) ==
    CHOOSE v \in Range(s) :
        /\ Cardinality({i \in DOMAIN s : s[i] < v}) < j
        /\ Cardinality({i \in DOMAIN s : s[i] <= v}) >= j

\* threshold_: the score at the quantile boundary of the sorted scores, the
\* highest of the n - round(n * contamination) lowest scores
Threshold(scores, c) == KthSmallest(scores, Len(scores) - Round(Len(scores), c))

\* variant: a score equal to the threshold is labelled an outlier too
Labels_inclusive(scores, thr) ==
    [i \in DOMAIN scores |-> IF scores[i] >= thr THEN 1 ELSE 0]

\* labels_: threshold_ applied on decision_scores_
Labels(scores, thr) == [i \in DOMAIN scores |-> IF scores[i] > thr THEN 1 ELSE 0]

\* BaseDetector._set_n_classes(y)
_set_n_classes(w, y) ==
    [w EXCEPT !._classes = Present(IF Has(y) THEN Cardinality(Range(y[1])) ELSE 2)]

\* BaseDetector._process_decision_scores()
_process_decision_scores(w) ==
    LET ds  == w.decision_scores_[1]
        thr == Threshold(ds.vals, w.contamination)
    IN  [w EXCEPT !.threshold_ = Present([gen |-> ds.gen, val |-> thr]),
                  !.labels_ = Present([gen |-> ds.gen, vals |-> Labels(ds.vals, thr)])]

-----------------------------------------------------------------------------
(* MCD *)

\* MCD.__init__
MCD(contamination, store_precision, assume_centered, support_fraction, random_state) ==
    [contamination |-> contamination, store_precision |-> store_precision,
     assume_centered |-> assume_centered, support_fraction |-> support_fraction,
     random_state |-> random_state,
     _classes |-> Absent, detector_ |-> Absent, decision_scores_ |-> Absent,
     threshold_ |-> Absent, labels_ |-> Absent]

\* self.detector_ = MinCovDet(...); self.detector_.fit(X=X, y=y)
fitted_estimator(w, X, y, g, late) ==
    MinCovDet_fit(MinCovDet(w.store_precision, w.assume_centered,
                            w.support_fraction, w.random_state, g),
                  X, y, late)

\* variant: decision_scores_ is initialised before the estimator is fitted
fit_call_scores_early(w, X, y, g, late) ==
    IF ~check_array(X)
    THEN [self |-> w, outcome |-> "InvalidInput", estimator_fits |-> 0]
    ELSE
      LET w1 == [_set_n_classes(w, y) EXCEPT
                    !.decision_scores_ = Present([gen |-> g, vals |-> <<>>])]
          r  == fitted_estimator(w1, X, y, g, late)
          w2 == [w1 EXCEPT !.detector_ = Present(r.est)]
      IN  IF ~r.ok
          THEN [self |-> w2, outcome |-> "EstimatorFailure", estimator_fits |-> 1]
          ELSE
            LET w3 == [w2 EXCEPT !.decision_scores_ =
                                    Present([gen |-> r.est.gen, vals |-> r.est.dist_])]
            IN  [self |-> _process_decision_scores(w3), outcome |-> "ok",
                 estimator_fits |-> 1]

\* variant: threshold_ and labels_ are computed on the first fit only
fit_call_keep_threshold(w, X, y, g, late) ==
    IF ~check_array(X)
    THEN [self |-> w, outcome |-> "InvalidInput", estimator_fits |-> 0]
    ELSE
      LET w1 == _set_n_classes(w, y)
          r  == fitted_estimator(w1, X, y, g, late)
          w2 == [w1 EXCEPT !.detector_ = Present(r.est)]
      IN  IF ~r.ok
          THEN [self |-> w2, outcome |-> "EstimatorFailure", estimator_fits |-> 1]
          ELSE
            LET w3 == [w2 EXCEPT !.decision_scores_ =
                                    Present([gen |-> r.est.gen, vals |-> r.est.dist_])]
            IN  [self |-> IF Has(w3.threshold_) THEN w3
                          ELSE _process_decision_scores(w3),
                 outcome |-> "ok", estimator_fits |-> 1]

\* variant: a failed estimator fit is tried a second time
fit_call_retry(w, X, y, g, late) ==
    IF ~check_array(X)
    THEN [self |-> w, outcome |-> "InvalidInput", estimator_fits |-> 0]
    ELSE
      LET w1 == _set_n_classes(w, y)
          r  == fitted_estimator(w1, X, y, g, late)
          w2 == [w1 EXCEPT !.detector_ = Present(r.est)]
      IN  IF ~r.ok
          THEN [self |-> w2, outcome |-> "EstimatorFailure", estimator_fits |-> 2]
          ELSE
            LET w3 == [w2 EXCEPT !.decision_scores_ =
                                    Present([gen |-> r.est.gen, vals |-> r.est.dist_])]
            IN  [self |-> _process_decision_scores(w3), outcome |-> "ok",
                 estimator_fits |-> 1]

\* variant: y reaches the estimator's configuration
fit_call_y_param(w, X, y, g, late) ==
    IF ~check_array(X)
    THEN [self |-> w, outcome |-> "InvalidInput", estimator_fits |-> 0]
    ELSE
      LET w1 == _set_n_classes(w, y)
          r  == MinCovDet_fit(MinCovDet(w1.store_precision, w1.assume_centered,
                                        y, w1.random_state, g),
                              X, y, late)
          w2 == [w1 EXCEPT !.detector_ = Present(r.est)]
      IN  IF ~r.ok
          THEN [self |-> w2, outcome |-> "EstimatorFailure", estimator_fits |-> 1]
          ELSE
            LET w3 == [w2 EXCEPT !.decision_scores_ =
                                    Present([gen |-> r.est.gen, vals |-> r.est.dist_])]
            IN  [self |-> _process_decision_scores(w3), outcome |-> "ok",
                 estimator_fits |-> 1]

\* MCD.fit(X, y), the g-th fit call on the instance
fit_call(w, X, y, g, late) ==
    IF ~check_array(X)
    THEN [self |-> w, outcome |-> "InvalidInput", estimator_fits |-> 0]
    ELSE
      LET w1 == _set_n_classes(w, y)
          r  == fitted_estimator(w1, X, y, g, late)
          w2 == [w1 EXCEPT !.detector_ = Present(r.est)]
      IN  IF ~r.ok
          THEN [self |-> w2, outcome |-> "EstimatorFailure", estimator_fits |-> 1]
          ELSE
            LET w3 == [w2 EXCEPT !.decision_scores_ =
                                    Present([gen |-> r.est.gen, vals |-> r.est.dist_])]
            IN  [self |-> _process_decision_scores(w3), outcome |-> "ok",
                 estimator_fits |-> 1]

FittedAttributes == {"decision_scores_", "threshold_", "labels_"}

\* variant: X is validated before the fitted state is checked
decision_function_validate_first(w, X) ==
    IF ~check_array(X)
    THEN [self |-> w, outcome |-> "InvalidInput", value |-> Absent, mahalanobis_calls |-> 0]
    ELSE IF ~check_is_fitted(w, FittedAttributes)
    THEN [self |-> w, outcome |-> "NotFitted", value |-> Absent, mahalanobis_calls |-> 0]
    ELSE
      LET r == mahalanobis(w.detector_[1], X)
      IN  [self |-> w, outcome |-> r.outcome, value |-> r.value, mahalanobis_calls |-> 1]

\* variant: the call records the class count of a prediction
decision_function_recording(w, X) ==
    IF ~check_is_fitted(w, FittedAttributes)
    THEN [self |-> w, outcome |-> "NotFitted", value |-> Absent, mahalanobis_calls |-> 0]
    ELSE IF ~check_array(X)
    THEN [self |-> w, outcome |-> "InvalidInput", value |-> Absent, mahalanobis_calls |-> 0]
    ELSE
      LET r == mahalanobis(w.detector_[1], X)
      IN  [self |-> _set_n_classes(w, Absent), outcome |-> r.outcome, value |-> r.value,
           mahalanobis_calls |-> 1]

\* MCD.decision_function(X)
decision_function_call(w, X) ==
    IF ~check_is_fitted(w, FittedAttributes)
    THEN [self |-> w, outcome |-> "NotFitted", value |-> Absent, mahalanobis_calls |-> 0]
    ELSE IF ~check_array(X)
    THEN [self |-> w, outcome |-> "InvalidInput", value |-> Absent, mahalanobis_calls |-> 0]
    ELSE
      LET r == mahalanobis(w.detector_[1], X)
      IN  [self |-> w, outcome |-> r.outcome, value |-> r.value, mahalanobis_calls |-> 1]

\* variant: the properties check the fitted state first
forwarded_guarded(w, a) ==
    IF ~check_is_fitted(w, FittedAttributes)
    THEN [outcome |-> "NotFitted", value |-> Absent]
    ELSE
      LET est == w.detector_[1]
      IN  IF a \notin est.stored
          THEN [outcome |-> "AttributeError", value |-> Absent]
          ELSE [outcome |-> "ok",
                value |-> Present([attr |-> a, gen |-> est.gen,
                                   none |-> (a = "precision_" /\ ~est.store_precision)])]

\* the properties raw_location_ ... support_: self.detector_.<a>
forwarded(w, a) ==
    IF ~Has(w.detector_)
    THEN [outcome |-> "AttributeError", value |-> Absent]
    ELSE
      LET est == w.detector_[1]
      IN  IF a \notin est.stored
          THEN [outcome |-> "AttributeError", value |-> Absent]
          ELSE [outcome |-> "ok",
                value |-> Present([attr |-> a, gen |-> est.gen,
                                   none |-> (a = "precision_" /\ ~est.store_precision)])]

-----------------------------------------------------------------------------
(* The instance and the calls made on it *)

NoCall ==
    [op |-> "none", X |-> MalformedX, y |-> Absent, late |-> FALSE, attr |-> "",
     outcome |-> "",
     value |-> Absent, estimator_fits |-> 0, mahalanobis_calls |-> 0]

Init ==
    /\ \E c \in Contaminations :
          self = MCD(c, TRUE, FALSE, Absent, Absent)
    /\ nfit = 0
    /\ nest = 0
    /\ nsucc = 0
    /\ fitted_on = Absent
    /\ last = NoCall

fit_from(S) ==
    /\ nfit < MaxFits
    /\ \E X \in S, y \in Ys :
       \E late \in (IF X.degenerate THEN BOOLEAN ELSE {FALSE}) :
          LET r == fit_call(self, X, y, nfit + 1, late)
          IN  /\ self' = r.self
              /\ nfit' = nfit + 1
              /\ nest' = nest + r.estimator_fits
              /\ nsucc' = IF r.outcome = "ok" THEN nsucc + 1 ELSE nsucc
              /\ fitted_on' = IF r.outcome = "ok" THEN Present(X) ELSE fitted_on
              /\ last' = [NoCall EXCEPT !.op = "fit", !.X = X, !.y = y, !.late = late,
                                        !.outcome = r.outcome,
                                        !.estimator_fits = r.estimator_fits]

\* fit on the data sets of the call sequences
fit == fit_from(LifecycleXs)

\* fit on any data set, every array of distances included
fit_scores == nfit < MaxScoreFits /\ fit_from(Xs)

decision_function ==
    \E X \in LifecycleXs :
        LET r == decision_function_call(self, X)
        IN  /\ self' = r.self
            /\ last' = [NoCall EXCEPT !.op = "decision_function", !.X = X,
                                      !.outcome = r.outcome, !.value = r.value,
                                      !.mahalanobis_calls = r.mahalanobis_calls]
            /\ UNCHANGED <<nfit, nest, nsucc, fitted_on>>

property_access ==
    \E a \in Forwarded :
        LET r == forwarded(self, a)
        IN  /\ last' = [NoCall EXCEPT !.op = "property", !.attr = a,
                                      !.outcome = r.outcome, !.value = r.value]
            /\ UNCHANGED <<self, nfit, nest, nsucc, fitted_on>>

Next == fit \/ decision_function \/ property_access

Spec == Init /\ [][Next]_vars

\* fit calls alone, over every array of distances
NextScores == fit_scores

SpecScores == Init /\ [][NextScores]_vars

-----------------------------------------------------------------------------
(* Properties *)

IsFitted == check_is_fitted(self, FittedAttributes)

FitCompleted == last.op = "fit" /\ last.outcome = "ok"

Ones(l) == Cardinality({i \in DOMAIN l : l[i] = 1})

\* C1: each of decision_scores_, threshold_ and labels_ is present if and only
\* if at least one fit call on the instance has completed.
C1_PresentIffFitCompleted ==
    \A a \in FittedAttributes : Has(self[a]) <=> nsucc >= 1

\* a fit call has failed inside the estimator on a never-fitted instance
C1_Witness ==
    /\ last.op = "fit"
    /\ last.outcome = "EstimatorFailure"
    /\ nsucc = 0
    /\ Has(self.detector_)

\* C2: after a fit call completes, the scores, threshold, labels, estimator
\* and the seven forwarded attributes are the objects of that call (the
\* nfit-th), computed from its X.
C2_RefitReplaces ==
    FitCompleted =>
        /\ self.detector_[1].gen = nfit
        /\ self.detector_[1].fitted
        /\ self.detector_[1].nfeat = last.X.nfeat
        /\ self.decision_scores_ = Present([gen |-> nfit, vals |-> last.X.dist])
        /\ self.threshold_[1].gen = nfit
        /\ self.threshold_[1].val \in Range(last.X.dist)
        /\ self.labels_[1].gen = nfit
        /\ Len(self.labels_[1].vals) = last.X.n
        /\ \A a \in Forwarded :
              /\ forwarded(self, a).outcome = "ok"
              /\ forwarded(self, a).value[1].gen = nfit

\* a fit call has completed on an instance fitted before
C2_Witness == FitCompleted /\ nsucc >= 2

\* C3: decision_function on an instance that is not fitted fails with
\* NotFitted for every X and does not call the estimator's mahalanobis.
C3_UnfittedDecisionFunction ==
    ~IsFitted =>
        /\ \A X \in Xs :
              /\ decision_function_call(self, X).outcome = "NotFitted"
              /\ decision_function_call(self, X).mahalanobis_calls = 0
        /\ last.op = "decision_function" =>
              /\ last.outcome = "NotFitted"
              /\ last.mahalanobis_calls = 0

\* decision_function was called with a malformed X on an instance that holds
\* an estimator but is not fitted
C3_Witness ==
    /\ last.op = "decision_function"
    /\ ~IsFitted
    /\ ~last.X.wellformed
    /\ Has(self.detector_)

C5_EstimatorFailurePropagates ==
    (last.op = "fit" /\ last.X.wellformed /\ last.X.degenerate) =>
        /\ last.outcome = "EstimatorFailure"
        /\ last.estimator_fits = 1
        /\ \A a \in FittedAttributes : Has(self[a]) => self[a][1].gen < nfit

\* the estimator failed in a fit call on a fitted instance
C5_Witness ==
    /\ last.op = "fit"
    /\ last.outcome = "EstimatorFailure"
    /\ nsucc >= 1

\* C6: a decision_function call, returning or failing, leaves the whole
\* instance as it was.
C6_DecisionFunctionPure ==
    [][last'.op = "decision_function" => self' = self]_vars

\* decision_function has returned scores
C6_Witness ==
    /\ last.op = "decision_function"
    /\ last.outcome = "ok"
    /\ Has(last.value)

\* C7: the fit call just made, repeated from the same instance with the same
\* X and any other y, ends the same way with the same estimator, scores,
\* threshold and labels.
C7_YOnlyClasses ==
    [][last'.op = "fit" =>
          \A y2 \in Ys :
              LET r == fit_call(self, last'.X, y2, nfit', last'.late)
              IN  /\ r.outcome = last'.outcome
                  /\ r.self.detector_ = self'.detector_
                  /\ r.self.decision_scores_ = self'.decision_scores_
                  /\ r.self.threshold_ = self'.threshold_
                  /\ r.self.labels_ = self'.labels_]_vars

\* a fit call with three classes in y has completed
C7_Witness ==
    /\ FitCompleted
    /\ last.y = Present(<<0, 1, 2>>)
    /\ self._classes # Present(2)

C9_FeatureMismatch ==
    (/\ last.op = "decision_function"
     /\ nsucc >= 1
     /\ last.X.wellformed
     /\ last.X.nfeat # fitted_on[1].nfeat) =>
        /\ last.outcome = "InvalidInput"
        /\ ~Has(last.value)

\* C10: whenever decision_function's fitted guard passes, the estimator is
\* fitted and the estimator, scores, threshold and labels are objects of one
\* fit call, the scores being the estimator's distances.
C10_OneFit ==
    IsFitted =>
        /\ Has(self.detector_)
        /\ self.detector_[1].fitted
        /\ self.detector_[1].gen = self.decision_scores_[1].gen
        /\ self.threshold_[1].gen = self.decision_scores_[1].gen
        /\ self.labels_[1].gen = self.decision_scores_[1].gen
        /\ self.detector_[1].dist_ = self.decision_scores_[1].vals

====
